---- MODULE Spec2Model ----
(***************************************************************************)
(* Model of the water export job (water_export_cli.py): fetch-window       *)
(* inference from the persisted CSV, normalisation of river and lake       *)
(* records, threshold classification, and the incremental merge into the   *)
(* persisted CSV.                                                          *)
(*                                                                         *)
(* Conventions.                                                            *)
(*  - A Python value that may be None/NaN is a sequence: <<>> is None,     *)
(*    <<x>> is the value x.                                                *)
(*  - Water levels and thresholds are integers in thousandths of a metre.  *)
(*  - A date is a day number counted from 2023-01-01 (day 0).  A datetime  *)
(*    is a number of half-minutes since 2023-01-01 00:00 local time; the   *)
(*    text "%Y-%m-%d %H:%M" of a datetime is its number of whole minutes   *)
(*    (strftime drops the seconds).                                        *)
(*  - A CSV cell holding an entity id is text; in a DataFrame the id is    *)
(*    a pair <<"str", text>> or <<"int", text>> (read_csv turns a column   *)
(*    of digit-only cells into integers).                                  *)
(***************************************************************************)
EXTENDS Integers, Sequences, FiniteSets, TLC

VARIABLES
    today,        \* current local date (day number)
    csv,          \* the persisted file data/water_data_full_combined.csv
    pc,           \* position of the script: idle, fetch, export, done
    start_date,   \* DEFAULT_START_DATE (<<>> before the window is inferred)
    end_date,     \* DEFAULT_END_DATE
    upstream_ids, \* the entity ids in the upstream answers of this run
    final_rows,   \* rows collected by main() in this run
    log,          \* diagnostics printed by this run
    cval,         \* classifier: the water level
    craw,         \* classifier: the station payload's threshold cells
    cbd,          \* classifier: <<bd1, bd2, bd3, hist_m>> parsed
    crank,        \* classifier: alert_val
    cdiff,        \* classifier: alert_diff
    cpc,          \* classifier: position
    plbl,         \* label parser: the time label
    pnow,         \* label parser: the local date of the clock
    pyear,        \* label parser: curr_year of main()
    pres,         \* label parser: the datetime returned, or None
    ppc,          \* label parser: position
    lrecords,     \* landslide export: records built from the response
    lcsv,         \* landslide export: the file data/landslide.csv
    lpc           \* landslide export: position

vars == <<today, csv, pc, start_date, end_date, upstream_ids, final_rows, log,
          cval, craw, cbd, crank, cdiff, cpc,
          plbl, pnow, pyear, pres, ppc, lrecords, lcsv, lpc>>

pipeVars == <<today, csv, pc, start_date, end_date, upstream_ids, final_rows, log>>
classVars == <<cval, craw, cbd, crank, cdiff, cpc>>
parseVars == <<plbl, pnow, pyear, pres, ppc>>
landVars == <<lrecords, lcsv, lpc>>

None == <<>>
Some(x) == <<x>>

(***************************************************************************)
(* Calendar (datetime.date / datetime.datetime of the standard library).   *)
(***************************************************************************)
IsLeap(y) == (y % 4 = 0 /\ y % 100 # 0) \/ y % 400 = 0

DaysInMonth(y, m) ==
    IF m \in {1, 3, 5, 7, 8, 10, 12} THEN 31
    ELSE IF m \in {4, 6, 9, 11} THEN 30
    ELSE IF IsLeap(y) THEN 29 ELSE 28

RECURSIVE DaysBeforeMonth(_, _)
DaysBeforeMonth(y, m) ==
    IF m <= 1 THEN 0 ELSE DaysBeforeMonth(y, m - 1) + DaysInMonth(y, m - 1)

RECURSIVE DaysBeforeYear(_)
DaysBeforeYear(y) ==
    IF y <= 2023 THEN 0
    ELSE DaysBeforeYear(y - 1) + (IF IsLeap(y - 1) THEN 366 ELSE 365)

\* date(y, m, d) as a day number
DayNum(y, m, d) == DaysBeforeYear(y) + DaysBeforeMonth(y, m) + (d - 1)

YearOf(day) ==
    CHOOSE y \in 2023..2026 : DayNum(y, 1, 1) <= day /\ day < DayNum(y + 1, 1, 1)

MonthOf(day) ==
    LET y == YearOf(day)
    IN CHOOSE m \in 1..12 :
           /\ DayNum(y, m, 1) <= day
           /\ day < DayNum(y, m, 1) + DaysInMonth(y, m)

\* datetime(y, m, d, h, mi): the datetime, or None where Python raises ValueError
MakeDatetime(y, m, d, h, mi) ==
    IF /\ m \in 1..12
       /\ d >= 1 /\ d <= DaysInMonth(y, m)
       /\ h \in 0..23
       /\ mi \in 0..59
    THEN Some(2 * (DayNum(y, m, d) * 1440 + h * 60 + mi))
    ELSE None

\* dt.date()
DateOfDt(dt) == dt \div 2880
\* dt.strftime("%Y-%m-%d %H:%M"): minute precision
Strftime(dt) == dt \div 2
\* pd.to_datetime(text).date() of a timestamp cell
DateOfText(t) == t \div 1440

(***************************************************************************)
(* Helpers (water_export_cli.py, HELPERS).                                 *)
(***************************************************************************)

\* A threshold cell of the station payload is the sequence of its
\* comma-separated parts; a part is <<n>> when float() reads it as n and <<>>
\* when float() raises.  A missing key, None or "" is the empty sequence.
get_first_num(v) ==
    IF v = <<>> THEN None
    ELSE IF v[1] = <<>> THEN None
    ELSE IF v[1][1] > 0 THEN Some(v[1][1]) ELSE None

\* Python truth of an optional number: None and 0 are false
Truthy(x) == x # None /\ x[1] # 0

\* Faulty variant: the ladder is walked from bd1 up, the first match winning
classify_exceed_lowest_first(level, bd1, bd2, bd3, hist) ==
    IF level = None THEN 0
    ELSE IF Truthy(bd1) /\ level[1] >= bd1[1] THEN 1
    ELSE IF Truthy(bd2) /\ level[1] >= bd2[1] THEN 2
    ELSE IF Truthy(bd3) /\ level[1] >= bd3[1] THEN 3
    ELSE IF Truthy(hist) /\ level[1] >= hist[1] THEN 4
    ELSE 0

classify_exceed(level, bd1, bd2, bd3, hist) ==
    IF level = None THEN 0
    ELSE IF Truthy(hist) /\ level[1] >= hist[1] THEN 4
    ELSE IF Truthy(bd3) /\ level[1] >= bd3[1] THEN 3
    ELSE IF Truthy(bd2) /\ level[1] >= bd2[1] THEN 2
    ELSE IF Truthy(bd1) /\ level[1] >= bd1[1] THEN 1
    ELSE 0

alert_name_from_value(v) ==
    CASE v = 0 -> "Duoi BD1"
      [] v = 1 -> "Tren BD1"
      [] v = 2 -> "Tren BD2"
      [] v = 3 -> "Tren BD3"
      [] v = 4 -> "Tren lu lich su"
      [] OTHER -> "Khong xac dinh"

\* round(x, 2) of a value in thousandths: to the nearest hundredth, a tie
\* going to the even hundredth
Round2(x) ==
    LET q == x \div 10
        r == x % 10
    IN IF r < 5 THEN 10 * q
       ELSE IF r > 5 THEN 10 * (q + 1)
       ELSE IF q % 2 = 0 THEN 10 * q ELSE 10 * (q + 1)

\* round(val - t, 2); val - None raises TypeError, which the caller's bare
\* except turns into None
DiffTo(val, t) == IF t = None THEN None ELSE Some(Round2(val[1] - t[1]))

\* Faulty variant: ranks 3 and 2 measured against the threshold below
calculate_alert_diff_shifted(level, val, bd1, bd2, bd3, hist) ==
    IF val = None THEN None
    ELSE IF level = 4 THEN DiffTo(val, hist)
    ELSE IF level = 3 THEN DiffTo(val, bd2)
    ELSE IF level = 2 THEN DiffTo(val, bd1)
    ELSE IF level = 1 THEN DiffTo(val, bd1)
    ELSE IF Truthy(bd1) THEN DiffTo(val, bd1)
    ELSE None

calculate_alert_diff(level, val, bd1, bd2, bd3, hist) ==
    IF val = None THEN None
    ELSE IF level = 4 THEN DiffTo(val, hist)
    ELSE IF level = 3 THEN DiffTo(val, bd3)
    ELSE IF level = 2 THEN DiffTo(val, bd2)
    ELSE IF level = 1 THEN DiffTo(val, bd1)
    ELSE IF Truthy(bd1) THEN DiffTo(val, bd1)
    ELSE None

\* parse_river_dt without the year-boundary branch
parse_river_dt_no_rollback(lbl, current_year, now) ==
    LET caseA ==
            IF lbl.mnew = <<>> THEN None
            ELSE MakeDatetime(current_year, lbl.mnew[3], lbl.mnew[2],
                              lbl.mnew[1], 0)
        caseB ==
            IF lbl.mold = <<>> THEN None
            ELSE MakeDatetime(current_year, MonthOf(now), lbl.mold[3],
                              lbl.mold[1], lbl.mold[2])
    IN IF lbl.empty THEN None
       ELSE IF caseA # None THEN caseA
       ELSE caseB

\* parse_river_dt rolling the year back for every month later than the
\* current one
parse_river_dt_rollback_later_month(lbl, current_year, now) ==
    LET caseA ==
            IF lbl.mnew = <<>> THEN None
            ELSE LET month == lbl.mnew[3]
                     year_to_use == IF month > MonthOf(now)
                                    THEN current_year - 1 ELSE current_year
                 IN MakeDatetime(year_to_use, month, lbl.mnew[2],
                                 lbl.mnew[1], 0)
        caseB ==
            IF lbl.mold = <<>> THEN None
            ELSE MakeDatetime(current_year, MonthOf(now), lbl.mold[3],
                              lbl.mold[1], lbl.mold[2])
    IN IF lbl.empty THEN None
       ELSE IF caseA # None THEN caseA
       ELSE caseB

\* A time label is described by what the two regular expressions find in it:
\* empty (None or ""), mnew = <<hour, day, month>> matched by
\* (\d{1,2})h\s+(\d{1,2})/(\d{1,2}) or <<>>, and mold = <<hour, minute, day>>
\* matched by (\d{1,2})h(\d{1,2})/(\d{1,2}) or <<>>.
parse_river_dt(lbl, current_year, now) ==
    LET caseA ==
            IF lbl.mnew = <<>> THEN None
            ELSE LET hour == lbl.mnew[1]
                     day == lbl.mnew[2]
                     month == lbl.mnew[3]
                     year_to_use == IF month = 12 /\ MonthOf(now) = 1
                                    THEN current_year - 1 ELSE current_year
                 IN MakeDatetime(year_to_use, month, day, hour, 0)
        caseB ==
            IF lbl.mold = <<>> THEN None
            ELSE LET hour == lbl.mold[1]
                     minute == lbl.mold[2]
                     day == lbl.mold[3]
                 IN MakeDatetime(current_year, MonthOf(now), day, hour, minute)
    IN IF lbl.empty THEN None
       ELSE IF caseA # None THEN caseA
       ELSE caseB

\* ThoiGianCapNhat is <<>> when str() of it holds no digit (None, text) and
\* <<n>> when its first run of digits is the epoch time n, counted here in
\* half-minutes of local time since 2023-01-01 00:00
ms_to_dt_local(ms_str) == IF ms_str = <<>> THEN None ELSE Some(ms_str[1])

\* A cell of the river "value" list: "-", "null", "", "NULL" give None; a
\* number gives the number; anything else makes float() raise
IsSentinel(x) == x.kind = "missing"
FloatRaises(x) == x.kind = "text"
ParseValue(x) == IF IsSentinel(x) THEN None ELSE Some(x.v)

(***************************************************************************)
(* Configuration tables (two entries of each table are modelled; the       *)
(* names are written without diacritics).                                  *)
(***************************************************************************)
LAKE_CONFIG ==
    ("467D6521" :> [name |-> "Pleikrong", basin_recode |-> "Se San",
                    province_recode |-> "Quang Ngai"]) @@
    ("A11984FB" :> [name |-> "Huong Dien", basin_recode |-> "Huong - Bo",
                    province_recode |-> "TP. Hue"])
LAKE_IDS == DOMAIN LAKE_CONFIG

STATION_CONFIG ==
    ("69702" :> [name |-> "Kon Tum", basin_recode |-> "Se San"]) @@
    ("71518" :> [name |-> "Phu Oc", basin_recode |-> "Huong - Bo"])
STATION_IDS == DOMAIN STATION_CONFIG

\* The station ids and lake codes the upstream endpoints answer with
UpstreamStationIds == {"69702", "99999"}
UpstreamLakeCodes == {"467D6521", "FFFFFFFF"}

\* Whether a CSV cell reads as an integer: a station id is a run of digits
\* (it is taken from the popup by (\d+)), a lake code is a GUID
IsDigits(text) == text \in STATION_IDS \cup UpstreamStationIds

\* The strings of the sort columns in code-point order
TextOrder == <<"Huong - Bo", "Huong Dien", "Kon Tum", "Lake", "Phu Oc",
               "Pleikrong", "River", "Se San", "upstream">>
TextRank(t) == CHOOSE i \in 1..Len(TextOrder) : TextOrder[i] = t

(***************************************************************************)
(* DataFrame operations (pandas).                                          *)
(***************************************************************************)
RECURSIVE Flatten(_, _)
\* f[1] \o ... \o f[n]
Flatten(f, n) == IF n = 0 THEN <<>> ELSE Flatten(f, n - 1) \o f[n]

\* The key of drop_duplicates(subset=["type", "Mã trạm/LakeCode",
\* "Thời gian (UTC)"]); nulls compare equal, the int 69702 and the str
\* "69702" do not
Key(r) == <<r.type, r.id, r.ts>>

\* drop_duplicates(subset=..., keep="last")
drop_duplicates(rows) ==
    LET keep(i) == \A j \in (i + 1)..Len(rows) : Key(rows[j]) # Key(rows[i])
    IN Flatten([i \in 1..Len(rows) |-> IF keep(i) THEN <<rows[i]>> ELSE <<>>],
               Len(rows))

\* Order of sort_values(["type", basin, name, timestamp]): null timestamps last
SortLE(a, b) ==
    LET ka == <<TextRank(a.type), TextRank(a.basin), TextRank(a.name)>>
        kb == <<TextRank(b.type), TextRank(b.basin), TextRank(b.name)>>
    IN IF ka[1] # kb[1] THEN ka[1] < kb[1]
       ELSE IF ka[2] # kb[2] THEN ka[2] < kb[2]
       ELSE IF ka[3] # kb[3] THEN ka[3] < kb[3]
       ELSE IF b.ts = None THEN TRUE
       ELSE IF a.ts = None THEN FALSE
       ELSE a.ts[1] <= b.ts[1]

RECURSIVE InsertSorted(_, _)
\* r goes after every row that is not greater: the sort is stable
InsertSorted(sorted, r) ==
    IF sorted = <<>> THEN <<r>>
    ELSE IF SortLE(sorted[Len(sorted)], r) THEN Append(sorted, r)
    ELSE Append(InsertSorted(SubSeq(sorted, 1, Len(sorted) - 1), r),
                sorted[Len(sorted)])

RECURSIVE sort_values(_)
sort_values(rows) ==
    IF rows = <<>> THEN <<>>
    ELSE InsertSorted(sort_values(SubSeq(rows, 1, Len(rows) - 1)), rows[Len(rows)])

\* DataFrame(final_rows): the id of a fetched row is a str
DataFrame(rows) == [i \in 1..Len(rows) |-> [rows[i] EXCEPT !.id = <<"str", @>>]]

\* to_csv: every cell becomes text
to_csv(frame) == [i \in 1..Len(frame) |-> [frame[i] EXCEPT !.id = @[2]]]

\* read_csv without dtype: a column whose cells are all digits is read as
\* integers, any other column as str
read_csv(lines) ==
    LET asInt == \A i \in 1..Len(lines) : IsDigits(lines[i].id)
    IN [i \in 1..Len(lines) |->
           [lines[i] EXCEPT !.id = <<IF asInt THEN "int" ELSE "str", @>>]]

(***************************************************************************)
(* Bounds and the upstream answers a run may receive.                      *)
(***************************************************************************)
MaxRaw == 2

Todays == {DayNum(2024, 1, 3)}

\* The readings of a station detail, as <<label, value cell>>: "7h \n3/1" with
\* "4.0" and with "5.204", "7h \n20/12" with "4.0", a label neither pattern
\* matches, and a value cell float() cannot read
Readings ==
    { <<[empty |-> FALSE, mnew |-> <<7, 3, 1>>, mold |-> <<>>],
        [kind |-> "num", v |-> 4000]>>,
      <<[empty |-> FALSE, mnew |-> <<7, 3, 1>>, mold |-> <<>>],
        [kind |-> "num", v |-> 5204]>>,
      <<[empty |-> FALSE, mnew |-> <<7, 20, 12>>, mold |-> <<>>],
        [kind |-> "num", v |-> 4000]>>,
      <<[empty |-> FALSE, mnew |-> <<>>, mold |-> <<>>],
        [kind |-> "num", v |-> 4000]>>,
      <<[empty |-> FALSE, mnew |-> <<7, 3, 1>>, mold |-> <<>>],
        [kind |-> "text", v |-> 0]>> }

\* The thresholds of the station payload: bao_dong1..3 and gia_tri_lu_lich_su
PayloadThresholds ==
    [bao_dong1 |-> <<Some(5000)>>, bao_dong2 |-> <<Some(6000)>>,
     bao_dong3 |-> <<Some(7000)>>, gia_tri_lu_lich_su |-> <<>>]

\* ThoiGianCapNhat: 2023-12-31 07:00:30, 2024-01-04 00:00:30, and a cell
\* without digits
LakeTimes ==
    { Some(2 * (DayNum(2023, 12, 31) * 1440 + 420) + 1),
      Some(2 * (DayNum(2024, 1, 4) * 1440) + 1),
      None }

LakeRecords ==
    { [LakeCode |-> "467D6521", ThoiGianCapNhat |-> t, TdMucNuoc |-> 210000] :
          t \in LakeTimes }
    \cup { [LakeCode |-> "FFFFFFFF",
            ThoiGianCapNhat |-> Some(2 * (DayNum(2024, 1, 3) * 1440 + 420)),
            TdMucNuoc |-> 210000] }

SeqsUpTo(S, n) == UNION { [1..k -> S] : k \in 0..n }

\* features: the station ids of the map layer, in order; labels and values:
\* the series of the station detail; lakes: the lake records of all days
\* asked.  A run receives at most MaxRaw readings and lake records in all.
RawPayloads ==
    { r \in { [features |-> f, labels |-> [i \in 1..Len(s) |-> s[i][1]],
               values |-> [i \in 1..Len(s) |-> s[i][2]], lakes |-> k] :
                  f \in {<<>>, <<"69702">>, <<"99999", "69702">>},
                  s \in SeqsUpTo(Readings, MaxRaw),
                  k \in SeqsUpTo(LakeRecords, MaxRaw) } :
        Len(r.labels) + Len(r.lakes) <= MaxRaw }

\* The entity ids of the answers r
IdsOf(r) ==
    {r.features[i] : i \in 1..Len(r.features)}
    \cup {r.lakes[i].LakeCode : i \in 1..Len(r.lakes)}

(***************************************************************************)
(* Scrapers and main().                                                    *)
(***************************************************************************)
\* Faulty variant: no allow-list
StationListedAny(sid) == TRUE

\* if sid not in STATION_IDS: continue
StationListed(sid) == sid \in STATION_IDS

\* The keys of the dict of stations, in insertion order
scrape_river_stations_list(features) ==
    LET first(i) == \A j \in 1..(i - 1) : features[j] # features[i]
    IN Flatten([i \in 1..Len(features) |->
                   IF StationListed(features[i]) /\ first(i)
                   THEN <<features[i]>> ELSE <<>>],
               Len(features))

\* One request per day of the window; the records whose LakeCode is listed
scan_lakes_via_api(lakes, start, end) ==
    IF start > end THEN <<>>
    ELSE SelectSeq(lakes, LAMBDA rec : rec.LakeCode \in LAKE_IDS)

Min(a, b) == IF a <= b THEN a ELSE b

\* Whether building the values list raises (float() of a bad cell)
StationRaises(d) == \E i \in 1..Len(d.values) : FloatRaises(d.values[i])

\* The rows main() appends for one station
RiverRows(sid, d, start, now) ==
    LET bd1 == get_first_num(PayloadThresholds.bao_dong1)
        bd2 == get_first_num(PayloadThresholds.bao_dong2)
        bd3 == get_first_num(PayloadThresholds.bao_dong3)
        hist_m == get_first_num(PayloadThresholds.gia_tri_lu_lich_su)
        listed == sid \in DOMAIN STATION_CONFIG
        recoded_basin == IF listed THEN STATION_CONFIG[sid].basin_recode
                         ELSE "upstream"
        recoded_name == IF listed THEN STATION_CONFIG[sid].name ELSE "upstream"
        one(i) ==
            LET dt_local == parse_river_dt(d.labels[i], YearOf(now), now)
                val == ParseValue(d.values[i])
                alert_val == classify_exceed(val, bd1, bd2, bd3, hist_m)
            IN IF dt_local = None THEN <<>>
               ELSE IF DateOfDt(dt_local[1]) < start THEN <<>>
               ELSE << [type |-> "River", id |-> sid, name |-> recoded_name,
                        basin |-> recoded_basin,
                        ts |-> Some(Strftime(dt_local[1])),
                        level |-> val,
                        status |-> alert_name_from_value(alert_val),
                        alert |-> Some(alert_val),
                        diff |-> calculate_alert_diff(alert_val, val, bd1, bd2,
                                                      bd3, hist_m)] >>
        n == Min(Len(d.labels), Len(d.values))
    IN IF StationRaises(d) THEN <<>>
       ELSE Flatten([i \in 1..n |-> one(i)], n)

\* if dt_local and dt_local.date() < DEFAULT_START_DATE: continue
LakeDrop(dt_local, start) ==
    dt_local # None /\ DateOfDt(dt_local[1]) < start

\* The rows main() appends for the lake records
LakeRows(lake_data, start) ==
    LET one(rec) ==
            LET dt_local == ms_to_dt_local(rec.ThoiGianCapNhat)
                listed == rec.LakeCode \in DOMAIN LAKE_CONFIG
            IN IF ~listed THEN <<>>
               ELSE IF LakeDrop(dt_local, start) THEN <<>>
               ELSE << [type |-> "Lake", id |-> rec.LakeCode,
                        name |-> LAKE_CONFIG[rec.LakeCode].name,
                        basin |-> LAKE_CONFIG[rec.LakeCode].basin_recode,
                        ts |-> IF dt_local = None THEN None
                               ELSE Some(Strftime(dt_local[1])),
                        level |-> Some(rec.TdMucNuoc), status |-> "N/A",
                        alert |-> None,
                        diff |-> None] >>
    IN Flatten([i \in 1..Len(lake_data) |-> one(lake_data[i])], Len(lake_data))

\* final_rows of main() for the answers r
CollectRows(r, start, end, now) ==
    LET stations == scrape_river_stations_list(r.features)
        lake_data == scan_lakes_via_api(r.lakes, start, end)
    IN Flatten([i \in 1..Len(stations) |-> RiverRows(stations[i], r, start, now)],
               Len(stations))
       \o LakeRows(lake_data, start)

(***************************************************************************)
(* The persisted file.  status: absent, ok, corrupt (read_csv raises) or   *)
(* nocol (a readable table without the timestamp column); rows: its lines. *)
(***************************************************************************)
AbsentFile == [status |-> "absent", rows |-> <<>>]

SetMax(S) == CHOOSE x \in S : \A y \in S : y <= x

\* Faulty variant: a future-dated file is not guarded against
InferWindowOf_no_drift_check(file, end) ==
    IF file.status = "absent" THEN <<end - 6, "no existing csv">>
    ELSE IF file.status \in {"corrupt", "nocol"}
         THEN <<end - 6, "could not infer start date">>
    ELSE LET stamps == {file.rows[i].ts[1] :
                            i \in {j \in 1..Len(file.rows) : file.rows[j].ts # None}}
         IN IF stamps = {} THEN <<end - 6, "could not infer start date">>
            ELSE <<DateOfText(SetMax(stamps)), "existing csv found">>

\* Lines 22-43: <<DEFAULT_START_DATE, message printed>>
InferWindowOf(file, end) ==
    IF file.status = "absent" THEN <<end - 6, "no existing csv">>
    ELSE IF file.status \in {"corrupt", "nocol"}
         THEN <<end - 6, "could not infer start date">>
    ELSE LET stamps == {file.rows[i].ts[1] :
                            i \in {j \in 1..Len(file.rows) : file.rows[j].ts # None}}
         IN IF stamps = {} THEN <<end - 6, "could not infer start date">>
            ELSE LET last_date == DateOfText(SetMax(stamps))
                 IN IF last_date > end THEN <<end - 6, "existing csv found">>
                    ELSE <<last_date, "existing csv found">>

\* Lines 490-502: the lines written when the existing file loads
Merged(file, df) ==
    to_csv(sort_values(drop_duplicates(read_csv(file.rows) \o df)))

\* Faulty variant: an unreadable file is left as it is
ExportOf_no_fallback(file, rows) ==
    IF rows = <<>> THEN <<file, "no data collected">>
    ELSE LET df == sort_values(DataFrame(rows))
         IN IF file.status = "absent"
            THEN <<[status |-> "ok", rows |-> to_csv(df)], "saved">>
            ELSE IF file.status = "corrupt"
            THEN <<file, "error merging, overwriting file">>
            ELSE <<[status |-> "ok", rows |-> Merged(file, df)],
                   "appended and deduplicated">>

\* Lines 454-510: <<the file after main(), message printed>>
ExportOf(file, rows) ==
    IF rows = <<>> THEN <<file, "no data collected">>
    ELSE LET df == sort_values(DataFrame(rows))
         IN IF file.status = "absent"
            THEN <<[status |-> "ok", rows |-> to_csv(df)], "saved">>
            ELSE IF file.status = "corrupt"
            THEN <<[status |-> "ok", rows |-> to_csv(df)],
                   "error merging, overwriting file">>
            ELSE <<[status |-> "ok", rows |-> Merged(file, df)],
                   "appended and deduplicated">>

(***************************************************************************)
(* One run of the script, and what happens to the file between runs.       *)
(***************************************************************************)
\* Module level, lines 22-43
InferWindow ==
    /\ pc = "idle"
    /\ LET w == InferWindowOf(csv, today)
       IN /\ end_date' = Some(today)
          /\ start_date' = Some(w[1])
          /\ log' = {w[2]}
    /\ pc' = "fetch"
    /\ UNCHANGED <<today, csv, upstream_ids, final_rows, classVars, parseVars, landVars>>

\* main(), lines 316-451
Fetch ==
    /\ pc = "fetch"
    /\ \E r \in RawPayloads :
          /\ upstream_ids' = IdsOf(r)
          /\ final_rows' = CollectRows(r, start_date[1], end_date[1], today)
          /\ log' = log \cup
                 (IF scrape_river_stations_list(r.features) # <<>> /\ StationRaises(r)
                  THEN {"skipping station"} ELSE {})
    /\ pc' = "export"
    /\ UNCHANGED <<today, csv, start_date, end_date, classVars, parseVars, landVars>>

\* main(), lines 454-512
Export ==
    /\ pc = "export"
    /\ LET e == ExportOf(csv, final_rows)
       IN /\ csv' = e[1]
          /\ log' = log \cup {e[2]}
    /\ pc' = "done"
    /\ UNCHANGED <<today, start_date, end_date, upstream_ids, final_rows, classVars, parseVars, landVars>>

\* The process ends
Exit ==
    /\ pc = "done"
    /\ pc' = "idle"
    /\ start_date' = None
    /\ end_date' = None
    /\ upstream_ids' = {}
    /\ final_rows' = <<>>
    /\ log' = {}
    /\ UNCHANGED <<today, csv, classVars, parseVars, landVars>>

\* Between runs the file becomes unreadable
Corrupt ==
    /\ pc = "idle"
    /\ csv.status = "ok"
    /\ csv' = [status |-> "corrupt", rows |-> <<>>]
    /\ UNCHANGED <<today, pc, start_date, end_date, upstream_ids, final_rows, log,
                   classVars, parseVars, landVars>>

\* Between runs the file is replaced by one without the timestamp column
StripColumn ==
    /\ pc = "idle"
    /\ csv.status = "ok"
    /\ csv' = [status |-> "nocol",
               rows |-> [i \in 1..Len(csv.rows) |-> [csv.rows[i] EXCEPT !.ts = None]]]
    /\ UNCHANGED <<today, pc, start_date, end_date, upstream_ids, final_rows, log,
                   classVars, parseVars, landVars>>

ClassIdle ==
    /\ cval = None /\ craw = <<>> /\ cbd = <<>> /\ crank = None /\ cdiff = None
    /\ cpc = "off"

PipeIdle ==
    /\ csv = AbsentFile /\ pc = "idle" /\ start_date = None /\ end_date = None
    /\ upstream_ids = {} /\ final_rows = <<>> /\ log = {}

ParseIdle ==
    /\ plbl = [empty |-> TRUE, mnew |-> <<>>, mold |-> <<>>]
    /\ pnow = None /\ pyear = None /\ pres = None /\ ppc = "off"

LandIdle ==
    /\ lrecords = <<>> /\ lcsv = [status |-> "absent", rows |-> <<>>]
    /\ lpc = "off"

Init ==
    /\ today \in Todays
    /\ PipeIdle
    /\ ClassIdle
    /\ ParseIdle
    /\ LandIdle

Next == InferWindow \/ Fetch \/ Export \/ Exit \/ Corrupt \/ StripColumn

Spec == Init /\ [][Next]_vars

(***************************************************************************)
(* The classifier on its own: main(), lines 348-351 and 379-384, for one   *)
(* reading of one station payload.                                         *)
(***************************************************************************)
\* Water levels: None, -0.5, 4.995, 5.0, 5.2, 5.204, 5.205, 5.215, 6.0, 7.5
ClassLevels ==
    {None, Some(-500), Some(4995), Some(5000), Some(5200), Some(5204), Some(5205),
     Some(5215), Some(6000), Some(7500)}

\* Threshold cells: missing, "0", "-1.0", "abc", "5.0", "6.0", "7.0,9.0"
ThresholdCells ==
    { <<>>, <<Some(0)>>, <<Some(-1000)>>, <<None>>, <<Some(5000)>>,
      <<Some(6000)>>, <<Some(7000), Some(9000)>> }

ClassInit ==
    /\ cval \in ClassLevels
    /\ craw \in [bao_dong1 : ThresholdCells, bao_dong2 : ThresholdCells,
                 bao_dong3 : ThresholdCells, gia_tri_lu_lich_su : ThresholdCells]
    /\ cbd = <<>>
    /\ crank = None
    /\ cdiff = None
    /\ cpc = "payload"

\* Lines 348-351
ReadThresholds ==
    /\ cpc = "payload"
    /\ cbd' = [bd1 |-> get_first_num(craw.bao_dong1),
               bd2 |-> get_first_num(craw.bao_dong2),
               bd3 |-> get_first_num(craw.bao_dong3),
               hist |-> get_first_num(craw.gia_tri_lu_lich_su)]
    /\ cpc' = "thresholds"
    /\ UNCHANGED <<cval, craw, crank, cdiff, pipeVars, parseVars, landVars>>

\* Line 380
Classify ==
    /\ cpc = "thresholds"
    /\ crank' = Some(classify_exceed(cval, cbd.bd1, cbd.bd2, cbd.bd3, cbd.hist))
    /\ cpc' = "classified"
    /\ UNCHANGED <<cval, craw, cbd, cdiff, pipeVars, parseVars, landVars>>

\* Lines 382-384
Diff ==
    /\ cpc = "classified"
    /\ cdiff' = calculate_alert_diff(crank[1], cval, cbd.bd1, cbd.bd2, cbd.bd3,
                                     cbd.hist)
    /\ cpc' = "done"
    /\ UNCHANGED <<cval, craw, cbd, crank, pipeVars, parseVars, landVars>>

InitClassify ==
    /\ today \in Todays
    /\ PipeIdle
    /\ ClassInit
    /\ ParseIdle
    /\ LandIdle

NextClassify == ReadThresholds \/ Classify \/ Diff

SpecClassify == InitClassify /\ [][NextClassify]_vars

(***************************************************************************)
(* Properties.                                                             *)
(***************************************************************************)
\* The primary key of a line of the persisted file
FileKey(r) == <<r.type, r.id, r.ts>>

Count(rows, x) == Cardinality({i \in 1..Len(rows) : rows[i] = x})
KeyCount(rows, k) == Cardinality({i \in 1..Len(rows) : FileKey(rows[i]) = k})

\* The existing file is present and read_csv reads it
Loads(file) == file.status \in {"ok", "nocol"}

\* C1: whenever a run has written the persisted file, no two of its lines
\* share the triple (type, entity id, timestamp).
C1_UniqueKeys ==
    (pc = "done" /\ final_rows # <<>>) =>
        \A i, j \in 1..Len(csv.rows) :
            FileKey(csv.rows[i]) = FileKey(csv.rows[j]) => i = j

\* C2: last write wins.  When the existing file loads and holds a line with
\* key K, and the incoming rows hold K too, the merged file holds exactly one
\* line for K, and it is the last incoming row with key K.
C2_LastWriteWins ==
    [][ (pc = "export" /\ Loads(csv)) =>
          \A i \in 1..Len(csv.rows) : \A j \in 1..Len(final_rows) :
              ( /\ FileKey(final_rows[j]) = FileKey(csv.rows[i])
                /\ \A l \in (j + 1)..Len(final_rows) :
                       FileKey(final_rows[l]) # FileKey(final_rows[j]) )
              => /\ KeyCount(csv'.rows, FileKey(final_rows[j])) = 1
                 /\ Count(csv'.rows, final_rows[j]) = 1 ]_vars

\* C3: history is retained.  In a run whose existing file loads, every key of
\* the file is still a key of the file after the run, and a line that is gone
\* has an incoming row with its key.
C3_HistoryRetained ==
    [][ (pc = "export" /\ Loads(csv)) =>
          \A i \in 1..Len(csv.rows) :
              /\ KeyCount(csv'.rows, FileKey(csv.rows[i])) >= 1
              /\ \/ Count(csv'.rows, csv.rows[i]) >= 1
                 \/ \E j \in 1..Len(final_rows) :
                        FileKey(final_rows[j]) = FileKey(csv.rows[i]) ]_vars

\* A merge run has kept a line dated before the run's start date
KeysRetained_Witness ==
    /\ pc = "done"
    /\ "appended and deduplicated" \in log
    /\ \E i \in 1..Len(csv.rows) :
           /\ csv.rows[i].ts # None
           /\ DateOfText(csv.rows[i].ts[1]) < start_date[1]

\* Supporting C3: in a run whose existing file loads, every key of the file is
\* still a key of the file after the run.
KeysRetained ==
    [][ (pc = "export" /\ Loads(csv)) =>
          \A i \in 1..Len(csv.rows) :
              KeyCount(csv'.rows, FileKey(csv.rows[i])) >= 1 ]_vars

\* C4: merging the incoming rows of a run a second time into the file the
\* first merge wrote gives that same file, lines and order.
C4_MergeIdempotent ==
    pc = "export" =>
        LET once == ExportOf(csv, final_rows)[1]
        IN ExportOf(once, final_rows)[1] = once

\* C5: the end date is today; the start date is the date D of the largest
\* timestamp of the file when the file is readable, has a timestamp and
\* D <= today, and today - 6 in every other case; so start <= end.
C5_WindowInference ==
    pc \in {"fetch", "export"} =>
        LET usable == /\ csv.status = "ok"
                      /\ \E i \in 1..Len(csv.rows) : csv.rows[i].ts # None
            latest == CHOOSE i \in 1..Len(csv.rows) :
                          /\ csv.rows[i].ts # None
                          /\ \A j \in 1..Len(csv.rows) :
                                 csv.rows[j].ts # None =>
                                     csv.rows[j].ts[1] <= csv.rows[i].ts[1]
            D == DateOfText(csv.rows[latest].ts[1])
        IN /\ end_date = Some(today)
           /\ IF usable /\ D <= today
              THEN start_date = Some(D)
              ELSE start_date = Some(today - 6)
           /\ start_date[1] <= end_date[1]

\* The start date was taken from a file whose last timestamp is of 2023-12-31
C5_Witness ==
    /\ pc = "fetch"
    /\ csv.status = "ok"
    /\ start_date = Some(DayNum(2023, 12, 31))
    /\ start_date[1] < today

\* C6: when the existing file is present and cannot be loaded, the run goes
\* on to its end, the file then holds the incoming rows of this run and no
\* other line, and the diagnostic is printed.
C6_LoadFailureOverwrites ==
    [][ (pc = "export" /\ csv.status = "corrupt" /\ final_rows # <<>>) =>
          /\ pc' = "done"
          /\ csv'.status = "ok"
          /\ Len(csv'.rows) = Len(final_rows)
          /\ \A i \in 1..Len(final_rows) :
                 Count(csv'.rows, final_rows[i]) = Count(final_rows, final_rows[i])
          /\ "error merging, overwriting file" \in log' ]_vars

\* A run has ended by overwriting a file it could not load
C6_Witness ==
    /\ pc = "done"
    /\ "error merging, overwriting file" \in log
    /\ csv.status = "ok"
    /\ csv.rows # <<>>

\* C7: no row with a null timestamp is added to the incoming rows, on the
\* river path or on the lake path.
C7_NoNullTimestamp ==
    \A i \in 1..Len(final_rows) : final_rows[i].ts # None

\* C8: once the upstream answers are normalised, every incoming row has an
\* entity id of the configured table of its source; an id outside the table
\* gives no row, and the run goes on.
C8_AllowList ==
    pc \in {"export", "done"} =>
        /\ \A i \in 1..Len(final_rows) :
               /\ final_rows[i].type = "River" =>
                      final_rows[i].id \in DOMAIN STATION_CONFIG
               /\ final_rows[i].type = "Lake" =>
                      final_rows[i].id \in DOMAIN LAKE_CONFIG
        /\ \A id \in upstream_ids \ (DOMAIN STATION_CONFIG \cup DOMAIN LAKE_CONFIG) :
               \A i \in 1..Len(final_rows) : final_rows[i].id # id

\* The answers held an unlisted station and the run collected river rows
C8_Witness ==
    /\ pc = "export"
    /\ "99999" \in upstream_ids
    /\ \E i \in 1..Len(final_rows) : final_rows[i].type = "River"

\* C9: for the thresholds of the payload, in any order and any of them
\* absent, the rank does not decrease when the level rises, is one of 0..4,
\* and is 0 for a null level.
C9_ClassifyMonotone ==
    cpc # "payload" =>
        /\ \A a, b \in ClassLevels \ {None} :
               a[1] <= b[1] =>
                   classify_exceed(a, cbd.bd1, cbd.bd2, cbd.bd3, cbd.hist)
                       <= classify_exceed(b, cbd.bd1, cbd.bd2, cbd.bd3, cbd.hist)
        /\ crank # None =>
               /\ crank[1] \in 0..4
               /\ cval = None => crank[1] = 0

\* A ladder out of order (bd1 above bd2, no historic level) has ranked 5.204
C9_Witness ==
    /\ cpc = "done"
    /\ cbd.bd1 = Some(6000) /\ cbd.bd2 = Some(5000) /\ cbd.hist = None
    /\ cval = Some(5204)
    /\ crank = Some(2)

\* C10: the diff of a null level is null; of a level with rank 0 and no bd1
\* it is null; otherwise it is the level minus the threshold of the rank
\* (historic, bd3, bd2, bd1 for 4, 3, 2, 1, and bd1 for 0), rounded to a
\* hundredth.  Level 5.2 with bd1 = 5.0 alone has rank 1 and diff 0.2.
C10_DiffToThreshold ==
    cpc = "done" =>
        LET rank == crank[1]
            thr == CASE rank = 4 -> cbd.hist
                     [] rank = 3 -> cbd.bd3
                     [] rank = 2 -> cbd.bd2
                     [] OTHER -> cbd.bd1
            exact == cval[1] - thr[1]
        IN /\ cval = None => cdiff = None
           /\ (cval # None /\ rank = 0 /\ cbd.bd1 = None) => cdiff = None
           /\ (cval # None /\ ~(rank = 0 /\ cbd.bd1 = None)) =>
                  /\ thr # None
                  /\ cdiff # None
                  /\ cdiff[1] % 10 = 0
                  /\ cdiff[1] - exact <= 5 /\ exact - cdiff[1] <= 5
           /\ ( /\ cval = Some(5200)
                /\ cbd = [bd1 |-> Some(5000), bd2 |-> None, bd3 |-> None,
                          hist |-> None] )
              => (rank = 1 /\ cdiff = Some(200))

\* Level 5.2 with bd1 = 5.0 and no other threshold has been classified
C10_Witness ==
    /\ cpc = "done"
    /\ cval = Some(5200)
    /\ cbd = [bd1 |-> Some(5000), bd2 |-> None, bd3 |-> None, hist |-> None]
    /\ cdiff = Some(200)

----------------------------------------------------------------------------
\* The label parser on its own: main() reads curr_year once (line 326), the
\* parser reads the clock again for the month (lines 187, 208), and midnight
\* may pass between the two reads.

\* Local dates of the clock
Nows ==
    {DayNum(2024, 1, 3), DayNum(2024, 7, 12), DayNum(2024, 12, 31),
     DayNum(2025, 1, 1), DayNum(2025, 2, 10)}

\* What (\d{1,2})h\s+(\d{1,2})/(\d{1,2}) finds: <<hour, day, month>>
NewMatches ==
    {<<>>} \cup ({0, 7, 24} \X {0, 15, 29, 31} \X {1, 2, 11, 12, 13})

\* What (\d{1,2})h(\d{1,2})/(\d{1,2}) finds: <<hour, minute, day>>
OldMatches ==
    {<<>>} \cup ({7, 24} \X {30, 60} \X {12, 31})

\* None, "" and the texts, one per pair of findings ("7h30/12 0h 15/11"
\* is found by both expressions)
Labels ==
    {[empty |-> TRUE, mnew |-> <<>>, mold |-> <<>>]}
    \cup {[empty |-> FALSE, mnew |-> a, mold |-> b] :
              a \in NewMatches, b \in OldMatches}

\* curr_year = datetime.now(TZ_LOCAL).year
ReadClock ==
    /\ ppc = "start"
    /\ pyear' = Some(YearOf(pnow[1]))
    /\ ppc' = "clock"
    /\ UNCHANGED <<plbl, pnow, pres, today, pipeVars, classVars, landVars>>

\* Midnight passes between the read of the year and the parser's read of
\* the month
Midnight ==
    /\ ppc = "clock"
    /\ pnow' = Some(pnow[1] + 1)
    /\ ppc' = "late"
    /\ UNCHANGED <<plbl, pyear, pres, today, pipeVars, classVars, landVars>>

\* dt_local = parse_river_dt(labels[i], curr_year)
ParseLabel ==
    /\ ppc \in {"clock", "late"}
    /\ pres' = parse_river_dt(plbl, pyear[1], pnow[1])
    /\ ppc' = "done"
    /\ UNCHANGED <<plbl, pnow, pyear, today, pipeVars, classVars, landVars>>

InitParse ==
    /\ today \in Todays
    /\ PipeIdle
    /\ ClassIdle
    /\ LandIdle
    /\ plbl \in Labels
    /\ pnow \in {Some(n) : n \in Nows}
    /\ pyear = None /\ pres = None /\ ppc = "start"

NextParse == ReadClock \/ Midnight \/ ParseLabel

SpecParse == InitParse /\ [][NextParse]_vars

\* The fields found in the label form a date/time of the year y
ValidNew(y) ==
    /\ plbl.mnew # <<>>
    /\ plbl.mnew[3] \in 1..12
    /\ plbl.mnew[2] >= 1 /\ plbl.mnew[2] <= DaysInMonth(y, plbl.mnew[3])
    /\ plbl.mnew[1] <= 23

ValidOld(y) ==
    /\ plbl.mold # <<>>
    /\ plbl.mold[3] >= 1
    /\ plbl.mold[3] <= DaysInMonth(y, MonthOf(pnow[1]))
    /\ plbl.mold[1] <= 23
    /\ plbl.mold[2] <= 59

\* The year the fields of the hour/day/month pattern are read in
YearOfNew ==
    IF plbl.mnew # <<>> /\ plbl.mnew[3] = 12 /\ MonthOf(pnow[1]) = 1
    THEN pyear[1] - 1 ELSE pyear[1]

\* C11: every label the parser parses gets the current local year
\* (curr_year of main), except that a result in December parsed while the
\* clock's month is January gets that year minus one; an empty label, a
\* label neither pattern is found in, and a label none of whose found
\* fields form a valid date/time give None (the parser returns, it does
\* not raise), and every other label is parsed.
C11_YearInference ==
    ppc = "done" =>
        /\ pres # None =>
              LET d == DateOfDt(pres[1])
              IN YearOf(d) = (IF MonthOf(d) = 12 /\ MonthOf(pnow[1]) = 1
                              THEN pyear[1] - 1 ELSE pyear[1])
        /\ (plbl.mnew = <<>> /\ plbl.mold = <<>>) => pres = None
        /\ pres = None <=>
              \/ plbl.empty
              \/ ~ValidNew(YearOfNew) /\ ~ValidOld(pyear[1])

\* A December label has been parsed in January and carries last year
C11_Witness ==
    /\ ppc = "done"
    /\ plbl.mnew # <<>> /\ plbl.mnew[3] = 12
    /\ MonthOf(pnow[1]) = 1
    /\ pres # None
    /\ YearOf(DateOfDt(pres[1])) = pyear[1] - 1

\* The label "0h \n15/11": hour 0, day 15, month 11, found by the
\* hour/day/month pattern alone
Label_0h_15_11 == [empty |-> FALSE, mnew |-> <<0, 15, 11>>, mold |-> <<>>]

\* C12 as stated: "0h \n15/11" parsed while the current local month is
\* January yields a timestamp of the current local year minus one.
C12_NovemberRolledBack ==
    (ppc = "done" /\ plbl = Label_0h_15_11 /\ MonthOf(pnow[1]) = 1) =>
        /\ pres # None
        /\ YearOf(DateOfDt(pres[1])) = pyear[1] - 1

\* C12: "0h \n15/11" parsed while the current local month is January
\* yields 15 November, 00:00, of the current local year: month 11 is not
\* December, so the year is not rolled back.
C12_NovemberKeepsYear ==
    (ppc = "done" /\ plbl = Label_0h_15_11 /\ MonthOf(pnow[1]) = 1) =>
        pres = MakeDatetime(pyear[1], 11, 15, 0, 0)

\* "0h \n15/11" has been parsed in January
C12_Witness ==
    /\ ppc = "done"
    /\ plbl = Label_0h_15_11
    /\ MonthOf(pnow[1]) = 1
    /\ pres # None
    /\ MonthOf(DateOfDt(pres[1])) = 11

----------------------------------------------------------------------------
\* landslide_export_cli.py: one fetch, one overwrite of data/landslide.csv.
\* A text is the sequence of its characters; a rating cell of the response
\* is None or <<text>>.  The vowels of the ratings are written without
\* their diacritics.

T_RatCao == <<"R", "a", "t", " ", "c", "a", "o">>
T_Cao == <<"C", "a", "o">>
T_TrungBinh == <<"T", "r", "u", "n", "g", " ", "b", "i", "n", "h">>
T_Thap == <<"T", "h", "a", "p">>
T_cao == <<"c", "a", "o">>
T_Cao_padded == <<" ", "C", "a", "o", " ">>
T_Hue == <<"H", "u", "e">>
T_Hue_padded == <<" ", "H", "u", "e">>
T_GiaLai == <<"G", "i", "a", " ", "L", "a", "i">>
T_Binh == <<"B", "i", "n", "h">>
T_Binh_padded == <<" ", "B", "i", "n", "h">>
T_P_An == <<"P", ".", " ", "A", "n">>
T_An == <<"A", "n">>

RECURSIVE lstrip(_)
lstrip(text) ==
    IF text # <<>> /\ Head(text) = " " THEN lstrip(Tail(text)) ELSE text

RECURSIVE rstrip(_)
rstrip(text) ==
    IF text # <<>> /\ text[Len(text)] = " "
    THEN rstrip(SubSeq(text, 1, Len(text) - 1)) ELSE text

\* text.strip()
strip(text) == rstrip(lstrip(text))

\* text.startswith(prefix)
startswith(text, prefix) ==
    Len(text) >= Len(prefix) /\ SubSeq(text, 1, Len(prefix)) = prefix

\* str(cell): None reads "None"
Str(cell) == IF cell = None THEN <<"N", "o", "n", "e">> ELSE cell[1]

\* SEVERITY_RANK.get(text, 0)
SEVERITY_RANK(text) ==
    IF text = T_RatCao THEN 3
    ELSE IF text = T_Cao THEN 2
    ELSE IF text = T_TrungBinh THEN 1
    ELSE 0

severity_score(row) ==
    LET s1 == SEVERITY_RANK(strip(Str(row.nguycosatlo)))
        s2 == SEVERITY_RANK(strip(Str(row.nguycoluquet)))
    IN IF s1 >= s2 THEN s1 ELSE s2

\* The characters of the names, in code point order
CharOrder ==
    <<" ", ".", "A", "B", "G", "H", "L", "P", "a", "e", "h", "i", "n", "u">>

CharRank(c) == CHOOSE i \in 1..Len(CharOrder) : CharOrder[i] = c

RECURSIVE TextLess(_, _)
\* a < b of two str
TextLess(a, b) ==
    IF b = <<>> THEN FALSE
    ELSE IF a = <<>> THEN TRUE
    ELSE IF Head(a) = Head(b) THEN TextLess(Tail(a), Tail(b))
    ELSE CharRank(Head(a)) < CharRank(Head(b))

\* Order of sort_values(["provinceName_2cap", "commune_name_2cap"])
PlaceLess(r1, r2) ==
    \/ TextLess(r1.provinceName_2cap, r2.provinceName_2cap)
    \/ /\ r1.provinceName_2cap = r2.provinceName_2cap
       /\ TextLess(r1.commune_name_2cap, r2.commune_name_2cap)

RECURSIVE InsertByPlace(_, _)
\* r goes before the first row that is greater: the sort is stable
InsertByPlace(sorted, r) ==
    IF sorted = <<>> THEN <<r>>
    ELSE IF PlaceLess(r, Head(sorted)) THEN <<r>> \o sorted
    ELSE <<Head(sorted)>> \o InsertByPlace(Tail(sorted), r)

RECURSIVE SortByPlace(_)
SortByPlace(rows) ==
    IF rows = <<>> THEN <<>>
    ELSE InsertByPlace(SortByPlace(SubSeq(rows, 1, Len(rows) - 1)),
                       rows[Len(rows)])

\* Faulty variant: the first row of the group, whatever its severity
idxmax_first_row(g) == 1

\* g["_sev"].idxmax(): the first row of the group holding the highest
\* severity_score
idxmax(g) ==
    CHOOSE i \in 1..Len(g) :
        /\ \A j \in 1..Len(g) : severity_score(g[j]) <= severity_score(g[i])
        /\ \A j \in 1..(i - 1) : severity_score(g[j]) < severity_score(g[i])

\* The group keys: rows without a commune_id_2cap belong to no group
GroupKeys(rows) ==
    {rows[i].commune_id_2cap[1] :
         i \in {j \in 1..Len(rows) : rows[j].commune_id_2cap # None}}

\* The rows of one group, in the order of the frame
GroupOf(rows, k) ==
    LET IsOfGroup(r) == r.commune_id_2cap = Some(k)
    IN SelectSeq(rows, IsOfGroup)

RECURSIVE GroupByApply(_, _)
\* groupby(["commune_id_2cap"]).apply(lambda g: g.loc[g["_sev"].idxmax()]):
\* one row per group, the groups in the order of their keys
GroupByApply(rows, keys) ==
    IF keys = {} THEN <<>>
    ELSE LET k == CHOOSE x \in keys : \A y \in keys : x <= y
             g == GroupOf(rows, k)
         IN <<g[idxmax(g)]>> \o GroupByApply(rows, keys \ {k})

\* Step 3 of main: the frame of the records, one row per commune
Deduplicate(records) ==
    IF records = <<>> THEN <<>>
    ELSE LET sorted == SortByPlace(records)
         IN GroupByApply(sorted, GroupKeys(sorted))

\* to_csv of the frame: an empty cell for None
LandslideCsv(rows) ==
    [status |-> "ok",
     rows |-> [i \in 1..Len(rows) |->
                  [rows[i] EXCEPT !.nguycosatlo = IF @ = None THEN <<>> ELSE @[1],
                                  !.nguycoluquet = IF @ = None THEN <<>> ELSE @[1]]]]

\* One record of the loop over the response
RecordOf(row, date_str) ==
    LET prov == strip(row.provinceName_2cap)
        stripped == strip(row.commune_name_2cap)
        commune == IF startswith(stripped, <<"P", ".", " ">>)
                   THEN strip(SubSeq(stripped, 4, Len(stripped)))
                   ELSE stripped
    IN [time |-> date_str,
        commune_id_2cap |-> row.commune_id_2cap,
        commune_name_2cap |-> commune,
        provinceName_2cap |-> prov,
        nguycosatlo |-> row.nguycosatlo,
        nguycoluquet |-> row.nguycoluquet]

RECURSIVE RecordsOf(_, _)
\* The loop over the response: an item that is no object raises, which ends
\* the loop and keeps the records built so far
RecordsOf(data, date_str) ==
    IF data = <<>> THEN <<>>
    ELSE IF ~Head(data).dict THEN <<>>
    ELSE <<RecordOf(Head(data), date_str)>> \o RecordsOf(Tail(data), date_str)

\* Most items of one response
MaxLand == 2

\* (erosion, flash flood) ratings of an item
LandRatings ==
    {<<Some(T_Cao), Some(T_RatCao)>>,
     <<Some(T_TrungBinh), Some(T_Cao)>>,
     <<Some(T_Cao_padded), None>>,
     <<Some(T_cao), Some(T_Thap)>>}

\* (province, commune name) of an item
LandPlaces ==
    {<<T_Hue_padded, T_P_An>>, <<T_Hue, T_Binh>>, <<T_GiaLai, T_Binh_padded>>}

LandIds == {None, Some(101), Some(102)}

LandItems ==
    {[dict |-> TRUE, commune_id_2cap |-> id, provinceName_2cap |-> pl[1],
      commune_name_2cap |-> pl[2], nguycosatlo |-> rt[1],
      nguycoluquet |-> rt[2]] :
         id \in LandIds, pl \in LandPlaces, rt \in LandRatings}
    \cup {[dict |-> FALSE, commune_id_2cap |-> None,
           provinceName_2cap |-> <<>>, commune_name_2cap |-> <<>>,
           nguycosatlo |-> None, nguycoluquet |-> None]}

\* What post_with_retries and the decoding give: nothing usable, or a list
LandResponses ==
    {[list |-> FALSE, items |-> <<>>]}
    \cup {[list |-> TRUE, items |-> d] : d \in SeqsUpTo(LandItems, MaxLand)}

\* The hour of the run
LandHours == {0, 13}

\* Steps 1 and 2 of main
FetchLandslide ==
    /\ lpc = "start"
    /\ \E hour \in LandHours, resp \in LandResponses :
           lrecords' = IF resp.list
                       THEN RecordsOf(resp.items, <<today, hour>>)
                       ELSE <<>>
    /\ lpc' = "fetched"
    /\ UNCHANGED <<lcsv, today, pipeVars, classVars, parseVars>>

\* Steps 3 and 4 of main
WriteLandslide ==
    /\ lpc = "fetched"
    /\ lcsv' = LandslideCsv(SortByPlace(Deduplicate(lrecords)))
    /\ lpc' = "done"
    /\ UNCHANGED <<lrecords, today, pipeVars, classVars, parseVars>>

\* The file of an earlier run
LandFiles ==
    {[status |-> "absent", rows |-> <<>>],
     LandslideCsv(<<RecordOf(
         [dict |-> TRUE, commune_id_2cap |-> Some(102),
          provinceName_2cap |-> T_Hue, commune_name_2cap |-> T_Binh,
          nguycosatlo |-> Some(T_Cao), nguycoluquet |-> None],
         <<0, 0>>)>>)}

InitLandslide ==
    /\ today \in Todays
    /\ PipeIdle
    /\ ClassIdle
    /\ ParseIdle
    /\ lrecords = <<>>
    /\ lcsv \in LandFiles
    /\ lpc = "start"

NextLandslide == FetchLandslide \/ WriteLandslide

SpecLandslide == InitLandslide /\ [][NextLandslide]_vars

\* The score of a written row
WrittenScore(row) ==
    LET s1 == SEVERITY_RANK(strip(row.nguycosatlo))
        s2 == SEVERITY_RANK(strip(row.nguycoluquet))
    IN IF s1 >= s2 THEN s1 ELSE s2

\* The records of commune k among the fetched records
RecordsOfCommune(k) ==
    {i \in 1..Len(lrecords) : lrecords[i].commune_id_2cap = Some(k)}

\* The highest score of the records of commune k
HighestScore(k) ==
    CHOOSE m \in 0..3 :
        /\ \E i \in RecordsOfCommune(k) : severity_score(lrecords[i]) = m
        /\ \A i \in RecordsOfCommune(k) : severity_score(lrecords[i]) <= m

\* C13: after the write of a non-empty list of fetched records, the file
\* holds exactly one row per distinct commune_id_2cap of the records and no
\* other row; the score max(erosion rank, flash flood rank) of that row,
\* ranks being 3/2/1 for "Rat cao"/"Cao"/"Trung binh" and 0 for any other
\* text, is the highest score of the records of that commune; and among the
\* records of the commune with that score the row is the first in
\* (province, name) order, the earlier fetched of two with the same province
\* and name.  Scores 3 and 2 of one commune keep the row of score 3.
C13_SeverityDedup ==
    (lpc = "done" /\ lrecords # <<>>) =>
        LET out == lcsv.rows
            ids == GroupKeys(lrecords)
        IN /\ lcsv.status = "ok"
           /\ Len(out) = Cardinality(ids)
           /\ \A k \in ids :
                  /\ Cardinality({o \in 1..Len(out) :
                                      out[o].commune_id_2cap = Some(k)}) = 1
                  /\ \A o \in 1..Len(out) :
                         out[o].commune_id_2cap = Some(k) =>
                             /\ WrittenScore(out[o]) = HighestScore(k)
                             /\ \E i \in RecordsOfCommune(k) :
                                    /\ LandslideCsv(<<lrecords[i]>>).rows[1] = out[o]
                                    /\ severity_score(lrecords[i]) = HighestScore(k)
                                    /\ \A j \in RecordsOfCommune(k) \ {i} :
                                           severity_score(lrecords[j]) = HighestScore(k)
                                           => \/ PlaceLess(lrecords[i], lrecords[j])
                                              \/ /\ ~PlaceLess(lrecords[j], lrecords[i])
                                                 /\ i < j
           /\ \A r \in {T_RatCao, T_Cao, T_TrungBinh, T_Thap, T_cao} :
                  SEVERITY_RANK(r) = (CASE r = T_RatCao -> 3 [] r = T_Cao -> 2
                                        [] r = T_TrungBinh -> 1 [] OTHER -> 0)

\* Two records of one commune, rated (Cao, Rat cao) and (Trung binh, Cao),
\* have been written as one row of score 3
C13_Witness ==
    /\ lpc = "done"
    /\ Len(lrecords) = 2
    /\ lrecords[1].commune_id_2cap = Some(101)
    /\ lrecords[2].commune_id_2cap = Some(101)
    /\ lrecords[1].nguycosatlo = Some(T_TrungBinh)
    /\ lrecords[1].nguycoluquet = Some(T_Cao)
    /\ lrecords[2].nguycosatlo = Some(T_Cao)
    /\ lrecords[2].nguycoluquet = Some(T_RatCao)
    /\ PlaceLess(lrecords[1], lrecords[2])
    /\ Len(lcsv.rows) = 1
    /\ WrittenScore(lcsv.rows[1]) = 3

====
